---- MODULE Spec2Model ----
(***************************************************************************)
(* BertSummarizer of SBCoding/text_summarizer.py: the chunker              *)
(* (_chunk_text), the extractive selector (_select_important_sentences)    *)
(* and the orchestrator (summarize).                                       *)
(*                                                                         *)
(* A Python str is a sequence of one-character strings.  The BERT          *)
(* embedder, KMeans and the summarization pipeline are outside the         *)
(* repository: each either raises or returns, and what it returns is       *)
(* chosen nondeterministically (cluster labels, similarities to the        *)
(* centroid, the abstractive text).                                        *)
(* compression_ratio is held in tenths (3 is 0.3, 15 is 1.5).              *)
(***************************************************************************)
EXTENDS Integers, Sequences, FiniteSets, TLC

VARIABLES
    pc,                  \* position of the running call
    text,                \* argument text
    compression_ratio,   \* argument compression_ratio, in tenths
    max_chunk_size,      \* argument max_chunk_size of _chunk_text
    chunks,              \* list returned by _chunk_text
    idx,                 \* ordinal (1-based) of the chunk the for loop is at
    sentences,           \* sentences of the current chunk / argument of the selector
    embeddings,          \* row j stands for the embedding of sentences[j]
    num_sentences,       \* target count handed to the selector
    kmeans,              \* what KMeans.fit_predict produced in the last selector call
    important_sentences, \* list returned by the selector
    all_summaries,       \* abstractive summaries collected so far
    calls,               \* record of the calls made to the summarization pipeline
    exc,                 \* the exception caught by summarize ("none" when none was raised)
    result               \* the dict summarize returned

vars == <<pc, text, compression_ratio, max_chunk_size, chunks, idx, sentences,
          embeddings, num_sentences, kmeans, important_sentences, all_summaries,
          calls, exc, result>>

(***************************************************************************)
(* Bounds of the model.                                                    *)
(***************************************************************************)
MaxTextLen == 4        \* longest enumerated text handed to summarize
MaxLongSentences == 2  \* most long sentences in a text handed to summarize
MaxChunkTextLen == 5   \* longest text handed to _chunk_text directly
MaxSize == 2           \* largest max_chunk_size handed to _chunk_text directly
MaxSentences == 3      \* most sentences handed to the selector directly
MaxK == 3              \* largest target count handed to the selector directly
MaxSim == 1            \* similarities to the centroid range over 0..MaxSim

DefaultMaxChunkSize == 512

Dot == <<".">>
Delim == <<".", " ">>
Space == <<" ">>
Alphabet == {"a", ".", " "}

Min(a, b) == IF a <= b THEN a ELSE b
Max(a, b) == IF a >= b THEN a ELSE b
Range(s) == {s[i] : i \in DOMAIN s}

(***************************************************************************)
(* str.split('. ') and str.join                                            *)
(***************************************************************************)
\* Start positions of the occurrences of '. '.  Two occurrences cannot
\* overlap (the second character of one would have to be both ' ' and '.'),
\* so the left-to-right scan of str.split finds every one of them.
DelimiterStarts(t) == {i \in 1..(Len(t) - 1) : t[i] = "." /\ t[i + 1] = " "}

NthStart(D, j) == CHOOSE p \in D : Cardinality({q \in D : q <= p}) = j

Split(t) ==
    LET D == DelimiterStarts(t)
        n == Cardinality(D)
    IN  [j \in 1..(n + 1) |->
            SubSeq(t, IF j = 1 THEN 1 ELSE NthStart(D, j - 1) + 2,
                      IF j = n + 1 THEN Len(t) ELSE NthStart(D, j) - 1)]

RECURSIVE Join(_, _)
Join(ss, d) ==
    IF Len(ss) = 0 THEN <<>>
    ELSE IF Len(ss) = 1 THEN ss[1]
    ELSE ss[1] \o d \o Join(Tail(ss), d)

(***************************************************************************)
(* _chunk_text                                                             *)
(***************************************************************************)
FlushChunk(current_chunk) == Join(current_chunk, Delim) \o Dot

BufferAfterFlushDropsSentence(sentence) == <<>>
BufferAfterFlush(sentence) == <<sentence>>

LengthAfterFlushReset(sentence_length) == 0
LengthAfterFlush(sentence_length) == sentence_length

RECURSIVE ChunkLoop(_, _, _, _, _, _)
ChunkLoop(ss, i, cks, current_chunk, current_length, max) ==
    IF i > Len(ss)
    THEN IF current_chunk # <<>> THEN Append(cks, FlushChunk(current_chunk)) ELSE cks
    ELSE LET sentence == ss[i]
             sentence_length == Len(sentence)
         IN  IF current_length + sentence_length > max
             THEN IF current_chunk # <<>>
                  THEN ChunkLoop(ss, i + 1, Append(cks, FlushChunk(current_chunk)),
                                 BufferAfterFlush(sentence),
                                 LengthAfterFlush(sentence_length), max)
                  ELSE ChunkLoop(ss, i + 1, Append(cks, sentence \o Dot),
                                 current_chunk, current_length, max)
             ELSE ChunkLoop(ss, i + 1, cks, Append(current_chunk, sentence),
                            current_length + sentence_length, max)

chunk_text(t, max) == ChunkLoop(Split(t), 1, <<>>, <<>>, 0, max)

(***************************************************************************)
(* _select_important_sentences                                             *)
(***************************************************************************)
PassThroughStrict(n, k) == n < k
PassThrough(n, k) == n <= k

NotFitted == [fitted |-> FALSE, labels |-> <<>>, sims |-> <<>>]
Fitted(labels, sims) == [fitted |-> TRUE, labels |-> labels, sims |-> sims]

\* Indices j, ascending, of the sentences with clusters[j] == i.
RECURSIVE ClusterMembers(_, _, _)
ClusterMembers(labels, i, j) ==
    IF j > Len(labels) THEN <<>>
    ELSE IF labels[j] = i THEN <<j>> \o ClusterMembers(labels, i, j + 1)
    ELSE ClusterMembers(labels, i, j + 1)

ArgMaxLast(members, sims) ==
    CHOOSE b \in 1..Len(members) :
        /\ \A m \in 1..Len(members) : sims[members[m]] <= sims[members[b]]
        /\ \A m \in (b + 1)..Len(members) : sims[members[m]] < sims[members[b]]

\* argmax over the members' similarities: the first position of the maximum.
ArgMax(members, sims) ==
    CHOOSE b \in 1..Len(members) :
        /\ \A m \in 1..Len(members) : sims[members[m]] <= sims[members[b]]
        /\ \A m \in 1..(b - 1) : sims[members[m]] < sims[members[b]]

ClusterIterationsShort(k) == k - 1
ClusterIterations(k) == k

RECURSIVE SelectLoop(_, _, _, _, _, _)
SelectLoop(ss, labels, sims, k, i, acc) ==
    IF i >= ClusterIterations(k) THEN acc
    ELSE LET members == ClusterMembers(labels, i, 1)
         IN  IF Len(members) > 0
             THEN SelectLoop(ss, labels, sims, k, i + 1,
                             Append(acc, ss[members[ArgMax(members, sims)]]))
             ELSE SelectLoop(ss, labels, sims, k, i + 1, acc)

\* The clustering branch, for the labels and similarities KMeans and
\* cosine_similarity produced.
ClusterSelect(ss, labels, sims, k) == SelectLoop(ss, labels, sims, k, 0, <<>>)

\* The effect of one selector call on kmeans and important_sentences.
SelectReturns(k) ==
    IF PassThrough(Len(sentences), k)
    THEN /\ kmeans' = NotFitted
         /\ important_sentences' = sentences
    ELSE \E labels \in [1..Len(sentences) -> 0..(k - 1)],
            sims \in [1..Len(sentences) -> 0..MaxSim] :
            /\ kmeans' = Fitted(labels, sims)
            /\ important_sentences' = ClusterSelect(sentences, labels, sims, k)

(***************************************************************************)
(* summarize                                                               *)
(***************************************************************************)
\* int() truncates towards zero.
Trunc(a, b) == IF a >= 0 THEN a \div b ELSE -((-a) \div b)

NumSentencesUnclamped(n, ratio) == Trunc(n * ratio, 10)

\* max(1, int(len(sentences) * compression_ratio)), the ratio in tenths.
NumSentences(n, ratio) == Max(1, Trunc(n * ratio, 10))

AppendSummaryFront(sums, s) == <<s>> \o sums
AppendSummary(sums, s) == Append(sums, s)

FinalSummary(sums) == Join(sums, Space)

SuccessResult(t, cks, sums) ==
    [summary |-> FinalSummary(sums),
     metadata |-> [original_length |-> Len(t),
                   summary_length |-> Len(FinalSummary(sums)),
                   compression_ratio |-> [num |-> Len(FinalSummary(sums)), den |-> Len(t)],
                   num_chunks |-> Len(cks)]]

ExceptHandlerPartial(e, sums) ==
    [summary |-> FinalSummary(sums), metadata |-> [error |-> e]]
ExceptHandler(e, sums) ==
    [summary |-> <<>>, metadata |-> [error |-> e]]

NoResult == [summary |-> <<>>, metadata |-> [pending |-> TRUE]]
IsFailure(r) == "error" \in DOMAIN r.metadata
IsSuccess(r) == "num_chunks" \in DOMAIN r.metadata

\* Texts the abstractive pipeline may return.
Summaries == {<<"x">>, <<"y", "y">>}

(***************************************************************************)
(* Inputs                                                                  *)
(***************************************************************************)
StringsUpTo(n) == UNION {[1..m -> Alphabet] : m \in 0..n}

LongSentence(n) == [i \in 1..n |-> "a"]
LongTexts ==
    UNION {{Join([j \in 1..m |-> LongSentence(f[j])], Delim) : f \in [1..m -> {200, 600}]} :
              m \in 1..MaxLongSentences}

Texts == StringsUpTo(MaxTextLen) \cup LongTexts
Ratios == {-5, 0, 3, 5, 10, 15}
SentencePool == {<<"a">>, <<"b">>}
SentenceLists == UNION {[1..m -> SentencePool] : m \in 0..MaxSentences}

(***************************************************************************)
(* summarize(text, compression_ratio), one step of its body per action     *)
(***************************************************************************)
Init ==
    /\ pc = "chunk_text"
    /\ text \in Texts
    /\ compression_ratio \in Ratios
    /\ max_chunk_size = DefaultMaxChunkSize
    /\ chunks = <<>>
    /\ idx = 1
    /\ sentences = <<>>
    /\ embeddings = <<>>
    /\ num_sentences = 0
    /\ kmeans = NotFitted
    /\ important_sentences = <<>>
    /\ all_summaries = <<>>
    /\ calls = <<>>
    /\ exc = "none"
    /\ result = NoResult

\* chunks = self._chunk_text(text)
SummarizeChunk ==
    /\ pc = "chunk_text"
    /\ chunks' = chunk_text(text, max_chunk_size)
    /\ pc' = "for"
    /\ UNCHANGED <<text, compression_ratio, max_chunk_size, idx, sentences, embeddings,
                   num_sentences, kmeans, important_sentences, all_summaries, calls,
                   exc, result>>

\* for chunk in chunks: sentences = chunk.split('. ')
SummarizeSplit ==
    /\ pc = "for"
    /\ idx <= Len(chunks)
    /\ sentences' = Split(chunks[idx])
    /\ pc' = "embed"
    /\ UNCHANGED <<text, compression_ratio, max_chunk_size, chunks, idx, embeddings,
                   num_sentences, kmeans, important_sentences, all_summaries, calls,
                   exc, result>>

\* embeddings = self._get_sentence_embeddings(sentences)
SummarizeEmbed ==
    /\ pc = "embed"
    /\ embeddings' = [j \in 1..Len(sentences) |-> j]
    /\ pc' = "select"
    /\ UNCHANGED <<text, compression_ratio, max_chunk_size, chunks, idx, sentences,
                   num_sentences, kmeans, important_sentences, all_summaries, calls,
                   exc, result>>

SummarizeEmbedRaises ==
    /\ pc = "embed"
    /\ exc' = "EmbeddingFailure"
    /\ pc' = "except"
    /\ UNCHANGED <<text, compression_ratio, max_chunk_size, chunks, idx, sentences,
                   embeddings, num_sentences, kmeans, important_sentences,
                   all_summaries, calls, result>>

\* num_sentences = max(1, int(...)); important_sentences = self._select_important_sentences(...)
SummarizeSelect ==
    /\ pc = "select"
    /\ num_sentences' = NumSentences(Len(sentences), compression_ratio)
    /\ SelectReturns(NumSentences(Len(sentences), compression_ratio))
    /\ pc' = "compress"
    /\ UNCHANGED <<text, compression_ratio, max_chunk_size, chunks, idx, sentences,
                   embeddings, all_summaries, calls, exc, result>>

\* KMeans or cosine_similarity raises: only on the clustering branch.
\* (cosine_similarity is handed the centroid as a numpy array and the members
\* as a torch tensor; whether the library accepts that pair or raises is the
\* library's affair, so both outcomes are kept.)
SummarizeSelectRaises ==
    /\ pc = "select"
    /\ ~PassThrough(Len(sentences), NumSentences(Len(sentences), compression_ratio))
    /\ num_sentences' = NumSentences(Len(sentences), compression_ratio)
    /\ exc' = "ClusteringFailure"
    /\ pc' = "except"
    /\ UNCHANGED <<text, compression_ratio, max_chunk_size, chunks, idx, sentences,
                   embeddings, kmeans, important_sentences, all_summaries, calls, result>>

\* extractive_summary = ' '.join(important_sentences);
\* abstractive_summary = self.summarizer(...)[0]['summary_text'];
\* all_summaries.append(abstractive_summary)
SummarizeCompress ==
    /\ pc = "compress"
    /\ \E abstractive_summary \in Summaries :
          /\ all_summaries' = AppendSummary(all_summaries, abstractive_summary)
          /\ calls' = Append(calls, [chunk |-> idx,
                                     input |-> Join(important_sentences, Space),
                                     out |-> abstractive_summary])
    /\ idx' = idx + 1
    /\ pc' = "for"
    /\ UNCHANGED <<text, compression_ratio, max_chunk_size, chunks, sentences, embeddings,
                   num_sentences, kmeans, important_sentences, exc, result>>

SummarizeCompressRaises ==
    /\ pc = "compress"
    /\ exc' = "CompressionFailure"
    /\ pc' = "except"
    /\ UNCHANGED <<text, compression_ratio, max_chunk_size, chunks, idx, sentences,
                   embeddings, num_sentences, kmeans, important_sentences,
                   all_summaries, calls, result>>

\* final_summary = ' '.join(all_summaries); return {...}
\* len(final_summary) / len(text) raises ZeroDivisionError when len(text) is 0.
SummarizeCompose ==
    /\ pc = "for"
    /\ idx > Len(chunks)
    /\ IF Len(text) = 0
       THEN /\ exc' = "division by zero"
            /\ pc' = "except"
            /\ result' = result
       ELSE /\ result' = SuccessResult(text, chunks, all_summaries)
            /\ pc' = "done"
            /\ exc' = exc
    /\ UNCHANGED <<text, compression_ratio, max_chunk_size, chunks, idx, sentences,
                   embeddings, num_sentences, kmeans, important_sentences,
                   all_summaries, calls>>

\* except Exception as e: ... return {'summary': '', 'metadata': {'error': str(e)}}
SummarizeExcept ==
    /\ pc = "except"
    /\ result' = ExceptHandler(exc, all_summaries)
    /\ pc' = "done"
    /\ UNCHANGED <<text, compression_ratio, max_chunk_size, chunks, idx, sentences,
                   embeddings, num_sentences, kmeans, important_sentences,
                   all_summaries, calls, exc>>

Next ==
    \/ SummarizeChunk
    \/ SummarizeSplit
    \/ SummarizeEmbed
    \/ SummarizeEmbedRaises
    \/ SummarizeSelect
    \/ SummarizeSelectRaises
    \/ SummarizeCompress
    \/ SummarizeCompressRaises
    \/ SummarizeCompose
    \/ SummarizeExcept

Spec == Init /\ [][Next]_vars

(***************************************************************************)
(* _chunk_text(text, max_chunk_size) called on its own                     *)
(***************************************************************************)
InitChunk ==
    /\ pc = "call"
    /\ \/ /\ text \in StringsUpTo(MaxChunkTextLen)
          /\ max_chunk_size \in 0..MaxSize
       \/ /\ text = LongSentence(120)
          /\ max_chunk_size = 50
    /\ compression_ratio = 3
    /\ chunks = <<>>
    /\ idx = 1
    /\ sentences = <<>>
    /\ embeddings = <<>>
    /\ num_sentences = 0
    /\ kmeans = NotFitted
    /\ important_sentences = <<>>
    /\ all_summaries = <<>>
    /\ calls = <<>>
    /\ exc = "none"
    /\ result = NoResult

ChunkTextCall ==
    /\ pc = "call"
    /\ chunks' = chunk_text(text, max_chunk_size)
    /\ pc' = "returned"
    /\ UNCHANGED <<text, compression_ratio, max_chunk_size, idx, sentences, embeddings,
                   num_sentences, kmeans, important_sentences, all_summaries, calls,
                   exc, result>>

NextChunk == ChunkTextCall

SpecChunk == InitChunk /\ [][NextChunk]_vars

(***************************************************************************)
(* _select_important_sentences(sentences, embeddings, num_sentences)       *)
(* called on its own                                                       *)
(***************************************************************************)
InitSelect ==
    /\ pc = "call"
    /\ sentences \in SentenceLists
    /\ embeddings = [j \in 1..Len(sentences) |-> j]
    /\ num_sentences \in 0..MaxK
    /\ text = <<>>
    /\ compression_ratio = 3
    /\ max_chunk_size = DefaultMaxChunkSize
    /\ chunks = <<>>
    /\ idx = 1
    /\ kmeans = NotFitted
    /\ important_sentences = <<>>
    /\ all_summaries = <<>>
    /\ calls = <<>>
    /\ exc = "none"
    /\ result = NoResult

SelectCall ==
    /\ pc = "call"
    /\ SelectReturns(num_sentences)
    /\ pc' = "returned"
    /\ UNCHANGED <<text, compression_ratio, max_chunk_size, chunks, idx, sentences,
                   embeddings, num_sentences, all_summaries, calls, exc, result>>

\* KMeans or cosine_similarity raises; the exception leaves the selector.
SelectCallRaises ==
    /\ pc = "call"
    /\ ~PassThrough(Len(sentences), num_sentences)
    /\ exc' = "ClusteringFailure"
    /\ pc' = "raised"
    /\ UNCHANGED <<text, compression_ratio, max_chunk_size, chunks, idx, sentences,
                   embeddings, num_sentences, kmeans, important_sentences,
                   all_summaries, calls, result>>

NextSelect ==
    \/ SelectCall
    \/ SelectCallRaises

SpecSelect == InitSelect /\ [][NextSelect]_vars

(***************************************************************************)
(* Properties                                                              *)
(***************************************************************************)
RatioValid(r) == r > 0 /\ r <= 10

\* A chunk without the '.' the chunker put at its end, and its sentences.
StripDot(chunk) == SubSeq(chunk, 1, Len(chunk) - 1)
ChunkSentences(chunk) == Split(StripDot(chunk))

RECURSIVE Flatten(_)
Flatten(ss) == IF Len(ss) = 0 THEN <<>> ELSE ss[1] \o Flatten(Tail(ss))

Oversized(sentence) == Len(sentence) > max_chunk_size
HasOversized(chunk) == \E j \in DOMAIN ChunkSentences(chunk) : Oversized(ChunkSentences(chunk)[j])

\* C1: a call whose compression_ratio is outside (0, 1] returns a failure
\* result (summary '' with an error) and never a success result.
C1_InvalidRatioFails ==
    (pc = "done" /\ ~RatioValid(compression_ratio)) =>
        /\ IsFailure(result)
        /\ result.summary = <<>>

\* C2: for the empty text the chunker returns no chunk and summarize returns
\* a success result with summary '' and num_chunks 0.
C2_EmptyTextSucceeds ==
    text = <<>> =>
        /\ pc # "chunk_text" => chunks = <<>>
        /\ pc \notin {"embed", "select", "compress", "except"}
        /\ pc = "done" => /\ IsSuccess(result)
                          /\ result.summary = <<>>
                          /\ result.metadata.num_chunks = 0

\* C3: once a step has raised, at whatever chunk, the exception is caught and
\* summarize returns the failure result: summary '' and the error's
\* description, with nothing of the chunks already summarized.
C3_AllOrNothing ==
    /\ exc # "none" => pc \in {"except", "done"}
    /\ pc = "except" => ENABLED SummarizeExcept
    /\ (pc = "done" /\ exc # "none") =>
          /\ IsFailure(result)
          /\ ~IsSuccess(result)
          /\ result.summary = <<>>
          /\ result.metadata.error = exc

C3_FailedAfterFirstChunk ==
    /\ pc = "done"
    /\ exc \in {"EmbeddingFailure", "ClusteringFailure", "CompressionFailure"}
    /\ idx >= 2
    /\ Len(all_summaries) >= 1
    /\ IsFailure(result)

\* C4: every chunk is at most max_chunk_size characters long, unless it is
\* formed from exactly one sentence that is itself longer than max_chunk_size.
C4_ChunkLengthBounded ==
    pc = "returned" =>
        \A i \in DOMAIN chunks :
            \/ Len(chunks[i]) <= max_chunk_size
            \/ /\ Len(ChunkSentences(chunks[i])) = 1
               /\ Oversized(ChunkSentences(chunks[i])[1])

\* C5 as stated: a chunk holding a sentence longer than max_chunk_size holds
\* that sentence only and is exactly as long as the sentence.
C5_OversizedChunkHasSentenceLength ==
    pc = "returned" =>
        \A i \in DOMAIN chunks :
            HasOversized(chunks[i]) =>
                /\ Len(ChunkSentences(chunks[i])) = 1
                /\ Len(chunks[i]) = Len(ChunkSentences(chunks[i])[1])

\* C5 as amended: every sentence longer than max_chunk_size is emitted, in
\* order, as a chunk of its own, which is the sentence followed by '.', one
\* character longer than the sentence.
C5_OversizedSentenceAlone ==
    pc = "returned" =>
        /\ \A i \in DOMAIN chunks :
              HasOversized(chunks[i]) =>
                  /\ Len(ChunkSentences(chunks[i])) = 1
                  /\ chunks[i] = ChunkSentences(chunks[i])[1] \o Dot
                  /\ Len(chunks[i]) = Len(ChunkSentences(chunks[i])[1]) + 1
        /\ SelectSeq(Split(text), Oversized)
              = [i \in DOMAIN SelectSeq(chunks, HasOversized) |->
                    StripDot(SelectSeq(chunks, HasOversized)[i])]

\* An oversized sentence that arrived at a non-empty buffer and was followed
\* by a further sentence.
C5_OversizedAfterBuffer ==
    /\ pc = "returned"
    /\ Len(chunks) >= 3
    /\ ~HasOversized(chunks[1])
    /\ HasOversized(chunks[2])

\* C6: for a non-empty text the sentences of the chunks, taken in chunk
\* order, are the sentences of the text: none dropped, duplicated or moved.
\* The '.' the chunker puts at the end of each chunk is set aside.
C6_ChunksKeepSentences ==
    (pc = "returned" /\ text # <<>>) =>
        /\ \A i \in DOMAIN chunks : chunks[i][Len(chunks[i])] = "."
        /\ Flatten([i \in DOMAIN chunks |-> ChunkSentences(chunks[i])]) = Split(text)
        /\ Join([i \in DOMAIN chunks |-> StripDot(chunks[i])], Delim) = text

C6_SeveralChunks ==
    /\ pc = "returned"
    /\ text # <<>>
    /\ Len(chunks) >= 2
    /\ \E i \in DOMAIN chunks : Len(ChunkSentences(chunks[i])) >= 2
    /\ \E i \in DOMAIN chunks : HasOversized(chunks[i])

\* C7: on success the summary is the single-space join of one abstractive
\* summary per chunk, chunk i's at position i, and num_chunks is the number
\* of chunks.
C7_SummaryInChunkOrder ==
    (pc = "done" /\ IsSuccess(result)) =>
        /\ Len(calls) = Len(chunks)
        /\ \A i \in DOMAIN calls : calls[i].chunk = i
        /\ result.summary = Join([i \in DOMAIN calls |-> calls[i].out], Space)
        /\ result.metadata.num_chunks = Len(chunks)

C7_TwoChunksSummarized ==
    /\ pc = "done"
    /\ IsSuccess(result)
    /\ Len(chunks) >= 2
    /\ calls[1].out # calls[2].out

\* C8: a call in which no capability raised returns a success result whose
\* compression_ratio is summary_length / original_length, or 0 when
\* original_length is 0; the division by zero is never attempted.
C8_RatioOrZero ==
    pc = "done" =>
        /\ exc # "division by zero"
        /\ exc = "none" => IsSuccess(result)
        /\ IsSuccess(result) =>
              LET m == result.metadata
              IN  /\ m.original_length = Len(text)
                  /\ m.summary_length = Len(result.summary)
                  /\ IF m.original_length > 0
                     THEN m.compression_ratio.num * m.original_length
                              = m.summary_length * m.compression_ratio.den
                     ELSE m.compression_ratio.num = 0

\* C9: with len(sentences) <= num_sentences the selector returns the
\* sentences themselves, in order, runs no clustering and cannot raise.
C9_PassThrough ==
    Len(sentences) <= num_sentences =>
        /\ pc # "raised"
        /\ pc = "returned" => /\ important_sentences = sentences
                              /\ ~kmeans.fitted

C9_PassedThrough ==
    /\ pc = "returned"
    /\ Len(sentences) >= 2
    /\ Len(sentences) = num_sentences

\* Clusters 0..num_sentences-1 that received no sentence.
EmptyClusters ==
    IF kmeans.fitted
    THEN {c \in 0..(num_sentences - 1) :
             \A j \in DOMAIN kmeans.labels : kmeans.labels[j] # c}
    ELSE {}

\* C10: every sentence the selector returns is one of its input sentences,
\* and it returns min(num_sentences, len(sentences)) sentences less one per
\* cluster without members.
C10_SubsetAndLength ==
    pc = "returned" =>
        /\ \A i \in DOMAIN important_sentences : important_sentences[i] \in Range(sentences)
        /\ Len(important_sentences)
              = Min(num_sentences, Len(sentences)) - Cardinality(EmptyClusters)
        /\ Len(important_sentences) <= num_sentences

C10_EmptyClusterSkipped ==
    /\ pc = "returned"
    /\ kmeans.fitted
    /\ Cardinality(EmptyClusters) >= 1
    /\ Len(important_sentences) >= 1

\* Clusters that received a sentence, the sentences of a cluster, and the
\* member the claim names: of maximal similarity, the lowest index on a tie.
NonEmptyClusters == (0..(num_sentences - 1)) \ EmptyClusters
MembersOf(c) == {j \in DOMAIN kmeans.labels : kmeans.labels[j] = c}
Representative(c) ==
    CHOOSE j \in MembersOf(c) :
        \A m \in MembersOf(c) :
            \/ kmeans.sims[m] < kmeans.sims[j]
            \/ kmeans.sims[m] = kmeans.sims[j] /\ m >= j

\* C11: with len(sentences) > num_sentences the selector, when it returns,
\* has clustered and emits one sentence per non-empty cluster in ascending
\* cluster index: the member of that cluster most similar to its centroid,
\* the one of lowest sentence index among those tied for the maximum.
C11_RepresentativePerCluster ==
    (pc = "returned" /\ Len(sentences) > num_sentences) =>
        /\ kmeans.fitted
        /\ Len(important_sentences) = Cardinality(NonEmptyClusters)
        /\ \A c \in NonEmptyClusters :
              important_sentences[Cardinality({d \in NonEmptyClusters : d <= c})]
                  = sentences[Representative(c)]

\* Two non-empty clusters, the later sentence in the earlier cluster, and a
\* tie for the maximum between two different sentences of one cluster.
C11_TieInACluster ==
    /\ pc = "returned"
    /\ kmeans.fitted
    /\ Cardinality(NonEmptyClusters) >= 2
    /\ kmeans.labels[1] > kmeans.labels[Len(sentences)]
    /\ \E c \in NonEmptyClusters : \E j \in MembersOf(c) :
          /\ j # Representative(c)
          /\ kmeans.sims[j] = kmeans.sims[Representative(c)]
          /\ sentences[j] # sentences[Representative(c)]

\* The target count has been computed for the current chunk: the selector
\* returned, or its clustering raised.
TargetCountComputed ==
    \/ pc = "compress"
    \/ pc = "except" /\ exc = "ClusteringFailure"

\* C12: for a chunk of n >= 1 sentences and a ratio in (0, 1] the target
\* count is k = max(1, floor(n * ratio)), so 1 <= k <= n; a chunk of 3
\* sentences with ratio 0.3 gives k = 1 and one representative sentence
\* goes to the compressor.
C12_TargetCount ==
    (TargetCountComputed /\ RatioValid(compression_ratio) /\ Len(sentences) >= 1) =>
        /\ \/ num_sentences = 1 /\ (Len(sentences) * compression_ratio) \div 10 <= 1
           \/ num_sentences = (Len(sentences) * compression_ratio) \div 10
        /\ 1 <= num_sentences
        /\ num_sentences <= Len(sentences)
        /\ (pc = "compress" /\ Len(sentences) = 3 /\ compression_ratio = 3) =>
              /\ num_sentences = 1
              /\ Len(important_sentences) = 1
              /\ important_sentences[1] \in Range(sentences)

C12_ThreeSentencesOneRepresentative ==
    /\ pc = "compress"
    /\ Len(sentences) = 3
    /\ compression_ratio = 3
    /\ kmeans.fitted
    /\ Len(important_sentences) = 1

====
